---- MODULE Spec2Model ----
(***************************************************************************)
(* Model of src/screenshot.py: the batch loop over respondent profiles,    *)
(* fill_survey's page loop and take_screenshots_scroll.  The browser, the  *)
(* survey pages and the completion API are the environment: what they      *)
(* return is chosen with \E from small sets.                               *)
(***************************************************************************)
EXTENDS Integers, Sequences, FiniteSets, TLC

\* ------------------------------------------------------------------ bounds
MaxPages == 2        \* pages of one survey (the last one has no "next" button)
MaxElems == 2        \* DOM elements of one page that some locator matches
MaxScroll == 2       \* largest window.pageYOffset a page can be scrolled to
MaxButtons == 2      \* task_select_button / option elements inside a question
InnerHeight == 1     \* window.innerHeight, the step of window.scrollBy

\* ------------------------------------------------------------- environment
\* Rows of user_data.csv (line 46): one student and one not.
Row1 == [Age |-> 21, Student_status |-> "Yes"]
Row2 == [Age |-> 47, Student_status |-> "No"]

\* The five locators of lines 203-209, in the order the code concatenates
\* and tests them.
Locators == <<"cbc_task", "select", "question.numeric", "response_column", "textarea">>

\* The locators one element can match: each one alone, and a <select> that
\* also carries the class response_column.
KindSets ==
  { {"cbc_task"}, {"select"}, {"question.numeric"}, {"response_column"}, {"textarea"},
    {"select", "response_column"} }

Coords == {0, 1}

\* An element is identified by its place in the document (id); y and x are
\* element.location.
Elements == [id : 1..MaxElems, kinds : KindSets, y : Coords, x : Coords]

\* The documents of up to MaxElems elements drawn from E, in document order.
DomsOver(E) ==
  UNION { { d \in [1..k -> E] : \A j \in 1..k : d[j].id = j } : k \in 0..MaxElems }

\* Documents of cbc_task elements that lie anywhere.
DomsByPosition == DomsOver({ e \in Elements : e.kinds = {"cbc_task"} })

\* Documents whose elements are all of one kind, any kind: the first at
\* the top, the others side by side below it.
DomsByKind ==
  UNION { DomsOver({ e \in Elements :
                       e.kinds = ks /\ e.x = 0 /\ e.y = (IF e.id = 1 THEN 0 ELSE 1) }) :
            ks \in KindSets }

\* A document with two kinds of question, the lower one first in the document.
MixedDom ==
  << [id |-> 1, kinds |-> {"textarea"}, y |-> 1, x |-> 0],
     [id |-> 2, kinds |-> {"cbc_task"}, y |-> 0, x |-> 0] >>

\* A page as the browser loads it: its question elements, how far it can be
\* scrolled, and where it is scrolled to when the script first looks.
Page(d, m, y0) == [dom |-> d, scrollMax |-> m, y0 |-> y0]

IntroPage == Page(<<>>, 0, 0)
TaskPage == Page(<<[id |-> 1, kinds |-> {"cbc_task"}, y |-> 0, x |-> 0]>>, 0, 0)

\* The pages of a rich site: every document above on a page that needs no
\* scrolling, and the intro and the task page with every scroll extent and
\* every initial offset.
RichPages ==
  { Page(d, 0, 0) : d \in DomsByPosition \cup DomsByKind \cup {MixedDom} }
  \cup { Page(sp[1], sp[2], sp[3]) :
           sp \in { t \in { IntroPage.dom, TaskPage.dom } \X (0..MaxScroll) \X (0..MaxScroll) :
                      t[3] <= t[2] } }

\* The pages of a plain site.
PlainPages == { IntroPage, TaskPage }

\* The pages a survey site can serve.
PagesOf(s) == IF s = "rich" THEN RichPages ELSE PlainPages

\* The inputs of a run: the CSV rows and the site behind the survey URL.
Inputs ==
  { [data |-> <<Row1>>, site |-> "rich"],
    [data |-> <<Row1, Row2>>, site |-> "plain"] }

\* message.content of a completion reply, as a string of characters.
Replies == { <<"0">>, <<"1">>, <<"2">>, <<"3">>, <<"-", "1">>, <<"n", "o">> }

\* What gpt-4o-mini returns from summarize_answer.
Summaries == { "summary" }

VARIABLES
  data,            \* input: the rows of user_data.csv
  site,            \* input: the site behind the survey URL
  pc,              \* position of the script
  profile,         \* index of the CSV row being processed (0 before the first)
  open,            \* rows whose webdriver.Chrome has been created and not quit
  quitted,         \* rows whose driver.quit() has run
  dom,             \* browser: the current page's question elements
  pageYOffset,     \* browser: window.pageYOffset
  scrollMax,       \* browser: largest pageYOffset of the current page
  page_index,      \* fill_survey local
  messages,        \* fill_survey local: the message thread
  content,         \* fill_survey local
  screenshots,     \* take_screenshots_scroll local, then fill_survey local
  last_height,     \* take_screenshots_scroll local
  png,             \* screenshots/screenshot_k.png: the offset each shows
  all_questions,   \* fill_survey local
  sorted_elements, \* fill_survey local
  i,               \* fill_survey local (1-based here, 0-based in the code)
  answer,          \* fill_survey local
  messages_json,   \* the file messages.json
  errlog,          \* logger.error records: the page_index each names
  lastDom,         \* the last DOM action performed on a question
  events,          \* what the current loop iteration has done so far, in order
  clicks,          \* successful next_button.click() calls of this survey
  startLen         \* len(messages) when the current loop iteration began

vars ==
  << data, site, pc, profile, open, quitted, dom, pageYOffset, scrollMax, page_index, messages,
     content, screenshots, last_height, png, all_questions, sorted_elements, i,
     answer, messages_json, errlog, lastDom, events, clicks, startLen >>

inputs == << data, site >>
browser == << dom, pageYOffset, scrollMax >>
sessions == << profile, open, quitted >>
scrollLocals == << screenshots, last_height, png >>
questionLocals == << all_questions, sorted_elements, i, answer >>

\* ------------------------------------------------------------ pure helpers
Min(a, b) == IF a < b THEN a ELSE b

RECURSIVE Concat(_)
Concat(ss) == IF ss = <<>> THEN <<>> ELSE Head(ss) \o Concat(Tail(ss))

\* driver.find_elements(By..., loc): the matching elements in document order.
find_elements(d, loc) == SelectSeq(d, LAMBDA e : loc \in e.kinds)

\* Lines 203-209: the five result lists, concatenated.
AllQuestions(d) == Concat([k \in 1..Len(Locators) |-> find_elements(d, Locators[k])])

\* get_position with the coordinates the other way round.
get_positionSwapped(element) == << element.x, element.y >>

\* Lines 223-228.
get_position(element) == << element.y, element.x >>

\* Python's tuple comparison a <= b on (y, x) pairs.
KeyLeq(a, b) == a[1] < b[1] \/ (a[1] = b[1] /\ a[2] <= b[2])

\* Line 230: sorted(all_questions, key=get_position), a stable sort: an
\* element goes after every earlier element whose key is <= its own.
RECURSIVE sorted(_)
sorted(s) ==
  IF s = <<>> THEN <<>>
  ELSE LET t == sorted(SubSeq(s, 1, Len(s) - 1))
           e == s[Len(s)]
           p == Cardinality({ j \in 1..Len(t) : KeyLeq(get_position(t[j]), get_position(e)) })
       IN  SubSeq(t, 1, p) \o <<e>> \o SubSeq(t, p + 1, Len(t))

IsIn(e, s) == \E j \in 1..Len(s) : s[j] = e

\* Lines 249, 280, 311, 341, 371: the if/elif chain takes the first locator
\* whose result list holds the element.
Branch(d, element) ==
  LET hits == { k \in 1..Len(Locators) : IsIn(element, find_elements(d, Locators[k])) }
  IN  IF hits = {} THEN "none"
      ELSE Locators[CHOOSE k \in hits : \A m \in hits : k <= m]

\* Lines 263, 294, 355 call answer_survey_choice; 325, 385 answer_survey_other.
IsChoice(branch) == branch \in {"cbc_task", "select", "response_column"}

\* Lines 251, 343, 373 read innerHTML; 282, 313 read outerHTML.
HtmlAttr(branch) == IF branch \in {"select", "question.numeric"} THEN "outerHTML" ELSE "innerHTML"

html_question(element, branch) == [attr |-> HtmlAttr(branch), el |-> element.id]

\* ---- int() and str()
DigitChars == <<"0", "1", "2", "3", "4", "5", "6", "7", "8", "9">>
IsDigit(c) == \E k \in 1..10 : DigitChars[k] = c
DigitVal(c) == (CHOOSE k \in 1..10 : DigitChars[k] = c) - 1

RECURSIVE DigitsVal(_)
DigitsVal(s) == IF s = <<>> THEN 0 ELSE 10 * DigitsVal(SubSeq(s, 1, Len(s) - 1)) + DigitVal(s[Len(s)])

AllDigits(s) == s # <<>> /\ \A k \in 1..Len(s) : IsDigit(s[k])

\* Line 120: int(content) of a reply; ok is FALSE where int() raises ValueError.
ParseInt(s) ==
  IF s # <<>> /\ s[1] \in {"-", "+"}
  THEN IF AllDigits(Tail(s))
       THEN [ok |-> TRUE, val |-> IF s[1] = "-" THEN 0 - DigitsVal(Tail(s)) ELSE DigitsVal(Tail(s))]
       ELSE [ok |-> FALSE, val |-> 0]
  ELSE IF AllDigits(s) THEN [ok |-> TRUE, val |-> DigitsVal(s)] ELSE [ok |-> FALSE, val |-> 0]

RECURSIVE NatStr(_)
NatStr(n) == IF n < 10 THEN <<DigitChars[n + 1]>> ELSE NatStr(n \div 10) \o <<DigitChars[(n % 10) + 1]>>

\* Line 306: str(answer).
Str(n) == IF n < 0 THEN <<"-">> \o NatStr(0 - n) ELSE NatStr(n)

\* ---- messages
Part(t, r, n) == [type |-> t, ref |-> r, n |-> n]

\* Line 431.
student_text(row) ==
  IF row.Student_status = "Yes" THEN "You are a student" ELSE "You are not a student"

\* Lines 169-193: the system message, built from the profile's fields.
SystemMessage(row) ==
  [role |-> "system", content |-> << Part("system", student_text(row), row.Age) >>]

\* Lines 213-220: the stitched screenshot of page p as an image_url part.
ImagePart(p) == Part("image_url", "stitched/survey_screenshot", p)

\* Lines 253-256 and the same in the other branches.
TextPart(q) == Part("text", q.attr, q.el)

UserMessage(c) == [role |-> "user", content |-> c]

\* Lines 270-273.
AssistantMessage(summary) == [role |-> "assistant", content |-> << Part("summary", summary, 0) >>]

\* Line 402: json.dump(messages, f); each dict becomes a JSON object.
JsonDump(msgs) == [k \in 1..Len(msgs) |-> << "role", msgs[k].role, "content", msgs[k].content >>]

\* ---- DOM actions
\* answer is an int after answer_survey_choice (line 120) and a str after
\* answer_survey_other (line 140); kind tells which of the two fields holds it.
NoAnswer == [kind |-> "none", int |-> 0, text |-> <<>>]
IntAnswer(n) == [kind |-> "int", int |-> n, text |-> <<>>]
StrAnswer(s) == [kind |-> "str", int |-> 0, text |-> s]
NoDom == [el |-> 0, i |-> 0, branch |-> "none", found |-> 0, answer |-> NoAnswer,
          op |-> "none", button |-> 0, text |-> <<>>]

Raise(exc) == [op |-> exc, button |-> 0, text |-> <<>>, raised |-> TRUE]
Did(op, button, text) == [op |-> op, button |-> button, text |-> text, raised |-> FALSE]

\* buttons[answer].click(): the 1-based answer used as a 0-based index.
ClickButtonNoOffset(a, n) ==
  IF a >= 0 /\ a < n THEN Did("click_button", a + 1, <<>>)
  ELSE IF a < 0 /\ a >= 0 - n THEN Did("click_button", n + a + 1, <<>>)
  ELSE Raise("IndexError")

\* Line 275: buttons[answer - 1].click() on a list of n buttons.  A Python
\* list takes the indices -n..n-1 and counts the negative ones from the end.
ClickButton(a, n) ==
  LET idx == a - 1
  IN  IF idx >= 0 /\ idx < n THEN Did("click_button", idx + 1, <<>>)
      ELSE IF idx < 0 /\ idx >= 0 - n THEN Did("click_button", n + idx + 1, <<>>)
      ELSE Raise("IndexError")

\* Lines 305-306: Select(element).select_by_value(str(answer)) on a select
\* whose n options carry the values "1".."n".
SelectByValue(a, n) ==
  IF \E k \in 1..n : Str(k) = Str(a) THEN Did("select_option", 0, Str(a))
  ELSE Raise("NoSuchElementException")

\* Line 336: element.find_element(By.TAG_NAME, "input").send_keys(answer)
\* on a question holding n input elements.
TypeNumeric(a, n) ==
  IF n >= 1 THEN Did("type_input", 0, a) ELSE Raise("NoSuchElementException")

\* Line 366: element.click().
ClickElement(a, n) == Did("click_element", 0, <<>>)

\* Line 396: element.send_keys(answer).
TypeTextarea(a, n) == Did("type_textarea", 0, a)

\* The browser call each branch ends with.
DomEffect(branch, a, n) ==
  CASE branch = "cbc_task" -> ClickButton(a.int, n)
    [] branch = "select" -> SelectByValue(a.int, n)
    [] branch = "question.numeric" -> TypeNumeric(a.text, n)
    [] branch = "response_column" -> ClickElement(a.int, n)
    [] branch = "textarea" -> TypeTextarea(a.text, n)

\* range(total_questions - 1): the loop leaves the last element out.
LoopMoreShort(k, total) == k < total - 1

\* Line 244: for i in range(total_questions) has another element to take.
LoopMore(k, total) == k < total

Log(ev) == events' = Append(events, ev)
Ev(op, k) == [op |-> op, i |-> k]

\* ------------------------------------------------------------------ state
Init ==
  /\ \E inp \in Inputs : data = inp.data /\ site = inp.site
  /\ pc = "main"
  /\ profile = 0 /\ open = {} /\ quitted = {}
  /\ dom = <<>> /\ pageYOffset = 0 /\ scrollMax = 0
  /\ page_index = 0 /\ messages = <<>> /\ content = <<>>
  /\ screenshots = <<>> /\ last_height = 0 /\ png = <<>>
  /\ all_questions = <<>> /\ sorted_elements = <<>> /\ i = 0 /\ answer = NoAnswer
  /\ messages_json = <<>> /\ errlog = <<>>
  /\ lastDom = NoDom /\ events = <<>> /\ clicks = 0 /\ startLen = 0

\* The browser shows a freshly loaded page.
Load(p) == dom' = p.dom /\ scrollMax' = p.scrollMax /\ pageYOffset' = p.y0

\* Lines 420-445: the next CSV row; a new Chrome is started and driver.get
\* loads the survey's first page.
OpenSession ==
  /\ pc = "main" /\ profile < Len(data)
  /\ profile' = profile + 1
  /\ open' = open \cup {profile + 1}
  /\ \E p \in PagesOf(site) : Load(p)
  /\ pc' = "call"
  /\ UNCHANGED << inputs, quitted, page_index, messages, content, scrollLocals,
                  questionLocals, messages_json, errlog, lastDom, events, clicks, startLen >>

\* Lines 448, 165-193: fill_survey is entered; its locals are fresh.
StartSurvey ==
  /\ pc = "call"
  /\ page_index' = 0
  /\ messages' = << SystemMessage(data[profile]) >>
  /\ content' = <<>> /\ screenshots' = <<>> /\ last_height' = 0
  /\ all_questions' = <<>> /\ sorted_elements' = <<>> /\ i' = 0 /\ answer' = NoAnswer
  /\ lastDom' = NoDom /\ events' = <<>> /\ clicks' = 0 /\ startLen' = 0
  /\ pc' = "loop"
  /\ UNCHANGED << inputs, sessions, browser, png, messages_json, errlog >>

\* Lines 196-198, 55-56: a loop iteration begins and take_screenshots_scroll
\* is entered.
BeginPage ==
  /\ pc = "loop"
  /\ content' = <<>>
  /\ screenshots' = <<>> /\ last_height' = 0 /\ png' = <<>>
  /\ events' = <<>> /\ startLen' = Len(messages)
  /\ pc' = "scroll"
  /\ UNCHANGED << inputs, sessions, browser, page_index, messages, questionLocals,
                  messages_json, errlog, lastDom, clicks >>

\* Lines 58-72: one iteration of take_screenshots_scroll's loop: screenshot,
\* scroll by one window height, compare the new offset with last_height.
ScrollStep ==
  /\ pc = "scroll"
  /\ LET filename == Len(screenshots)
         new_height == Min(pageYOffset + InnerHeight, scrollMax)
     IN  /\ png' = Append(png, pageYOffset)
         /\ screenshots' = Append(screenshots, filename)
         /\ pageYOffset' = new_height
         /\ Log(Ev("shot", filename))
         /\ IF new_height = last_height
            THEN pc' = "stitch" /\ UNCHANGED last_height
            ELSE pc' = "scroll" /\ last_height' = new_height
  /\ UNCHANGED << inputs, sessions, dom, scrollMax, page_index, messages, content,
                  questionLocals, messages_json, errlog, lastDom, clicks, startLen >>

\* Lines 199-240: stitch, find the questions, put the image into content,
\* sort; a page without questions adds the screenshot to the thread.
\* save_screenshot (line 60) returns False when it cannot write its file,
\* and Image.open (line 79) or Image.save (line 91) then raises: stitched
\* tells whether the files and the directories were there.
StitchAndFind ==
  /\ pc = "stitch"
  /\ \E stitched \in BOOLEAN :
       LET found == AllQuestions(dom)
           total_questions == Len(found)
           withImage == Append(content, ImagePart(page_index))
       IN  IF ~stitched
           THEN /\ pc' = "crashed"
                /\ UNCHANGED << all_questions, sorted_elements, content, events, messages, i >>
           ELSE /\ all_questions' = found
                /\ sorted_elements' = sorted(found)
                /\ content' = withImage
                /\ Log(Ev("stitch", Len(screenshots)))
                /\ IF total_questions = 0
                   THEN /\ messages' = Append(messages, UserMessage(withImage))
                        /\ i' = 0
                        /\ pc' = "dump"
                   ELSE /\ UNCHANGED messages
                        /\ i' = 1
                        /\ pc' = "question"
  /\ UNCHANGED << inputs, sessions, browser, page_index, scrollLocals, answer,
                  messages_json, errlog, lastDom, clicks, startLen >>

\* Lines 245-262 (and 280-293, 311-324, 341-354, 371-384): the question's
\* html goes into content, content into the thread, the thread to the API.
AskQuestion ==
  /\ pc = "question"
  /\ LET element == sorted_elements[i]
         branch == Branch(dom, element)
         withText == Append(content, TextPart(html_question(element, branch)))
     IN  /\ content' = withText
         /\ messages' = Append(messages, UserMessage(withText))
  /\ lastDom' = NoDom
  /\ pc' = "asked"
  /\ UNCHANGED << inputs, sessions, browser, page_index, scrollLocals, questionLocals,
                  messages_json, errlog, events, clicks, startLen >>

\* Lines 263-274 (and the same in the other branches): the reply arrives;
\* answer_survey_choice converts it with int(), answer_survey_other returns
\* it as it is; the question leaves the thread and the summary enters it.
ReceiveAnswer ==
  /\ pc = "asked"
  /\ \E reply \in Replies, summary \in Summaries :
       LET branch == Branch(dom, sorted_elements[i])
           parsed == ParseInt(reply)
       IN  IF IsChoice(branch) /\ ~parsed.ok
           THEN /\ pc' = "crashed"
                /\ UNCHANGED << messages, content, answer, events >>
           ELSE /\ answer' = IF IsChoice(branch) THEN IntAnswer(parsed.val) ELSE StrAnswer(reply)
                /\ messages' = Append(SubSeq(messages, 1, Len(messages) - 1),
                                      AssistantMessage(summary))
                /\ content' = <<>>
                /\ events' = events \o << Ev("api", i), Ev("summary", i) >>
                /\ pc' = "act"
  /\ UNCHANGED << inputs, sessions, browser, page_index, scrollLocals, all_questions,
                  sorted_elements, i, messages_json, errlog, lastDom, clicks, startLen >>

\* Lines 275, 305-306, 336, 366, 396 and the for statement of line 244: the
\* answer is put into the page, and the loop moves to the next question.
\* What the element holds (n buttons, options or inputs) is found when the
\* code looks for it.  answer is not read again before it is next assigned,
\* so the model forgets it here; lastDom keeps what was done with it.
DomAction ==
  /\ pc = "act"
  /\ \E n \in 0..MaxButtons :
       LET element == sorted_elements[i]
           branch == Branch(dom, element)
           eff == DomEffect(branch, answer, n)
       IN  /\ lastDom' = [el |-> element.id, i |-> i, branch |-> branch, found |-> n,
                          answer |-> answer, op |-> eff.op, button |-> eff.button,
                          text |-> eff.text]
           /\ IF eff.raised
              THEN pc' = "crashed" /\ UNCHANGED << i, events, answer >>
              ELSE /\ Log(Ev("dom", i))
                   /\ answer' = NoAnswer
                   /\ IF LoopMore(i, Len(all_questions))
                      THEN i' = i + 1 /\ pc' = "question"
                      ELSE i' = i /\ pc' = "dump"
  /\ UNCHANGED << inputs, sessions, browser, page_index, messages, content, scrollLocals,
                  all_questions, sorted_elements, messages_json, errlog, clicks, startLen >>

\* The dump placed inside the else branch of line 242: a page without
\* questions leaves the file as it was.
DumpMessagesOnlyQuestions ==
  /\ pc = "dump"
  /\ messages_json' = IF Len(all_questions) = 0 THEN messages_json ELSE JsonDump(messages)
  /\ Log(Ev("dump", page_index))
  /\ pc' = "next"
  /\ UNCHANGED << inputs, sessions, browser, page_index, messages, content, scrollLocals,
                  questionLocals, errlog, lastDom, clicks, startLen >>

\* Lines 400-402.
DumpMessages ==
  /\ pc = "dump"
  /\ messages_json' = JsonDump(messages)
  /\ Log(Ev("dump", page_index))
  /\ pc' = "next"
  /\ UNCHANGED << inputs, sessions, browser, page_index, messages, content, scrollLocals,
                  questionLocals, errlog, lastDom, clicks, startLen >>

\* Lines 405-415: the button is found and clicked, the next page loads.
NextClicked ==
  /\ pc = "next" /\ page_index + 1 < MaxPages
  /\ \E p \in PagesOf(site) : Load(p)
  /\ Log(Ev("next", page_index))
  /\ page_index' = page_index + 1
  /\ clicks' = clicks + 1
  /\ lastDom' = NoDom
  /\ pc' = "loop"
  /\ UNCHANGED << inputs, sessions, messages, content, scrollLocals, questionLocals,
                  messages_json, errlog, startLen >>

\* The except branch without its break: after the first failure of a
\* survey the loop goes round again.
NextMissingRetries ==
  /\ pc = "next"
  /\ errlog' = Append(errlog, page_index)
  /\ lastDom' = NoDom
  /\ pc' = IF Len(errlog) < profile THEN "loop" ELSE "returned"
  /\ UNCHANGED << inputs, sessions, browser, page_index, messages, content, scrollLocals,
                  questionLocals, messages_json, events, clicks, startLen >>

\* Lines 405-412, 417: the wait times out or the click raises; the error is
\* logged and fill_survey returns.
NextMissing ==
  /\ pc = "next"
  /\ errlog' = Append(errlog, page_index)
  /\ lastDom' = NoDom
  /\ pc' = "returned"
  /\ UNCHANGED << inputs, sessions, browser, page_index, messages, content, scrollLocals,
                  questionLocals, messages_json, events, clicks, startLen >>

\* The batch loop without driver.quit().
QuitDriverSkipped ==
  /\ pc = "returned"
  /\ pc' = "main"
  /\ UNCHANGED << inputs, sessions, browser, page_index, messages, content, scrollLocals,
                  questionLocals, messages_json, errlog, lastDom, events, clicks, startLen >>

\* driver.quit() followed by a break: the batch ends after the first row.
QuitDriverEndsBatch ==
  /\ pc = "returned"
  /\ open' = open \ {profile}
  /\ quitted' = quitted \cup {profile}
  /\ profile' = Len(data)
  /\ pc' = "main"
  /\ UNCHANGED << inputs, browser, page_index, messages, content, scrollLocals,
                  questionLocals, messages_json, errlog, lastDom, events, clicks, startLen >>

\* Line 451: driver.quit(); the for statement of line 420 goes on.
QuitDriver ==
  /\ pc = "returned"
  /\ open' = open \ {profile}
  /\ quitted' = quitted \cup {profile}
  /\ pc' = "main"
  /\ UNCHANGED << inputs, profile, browser, page_index, messages, content, scrollLocals,
                  questionLocals, messages_json, errlog, lastDom, events, clicks, startLen >>

Next ==
  \/ OpenSession
  \/ StartSurvey
  \/ BeginPage
  \/ ScrollStep
  \/ StitchAndFind
  \/ AskQuestion
  \/ ReceiveAnswer
  \/ DomAction
  \/ DumpMessages
  \/ NextClicked
  \/ NextMissing
  \/ QuitDriver

Spec == Init /\ [][Next]_vars

\* ------------------------------------------------------------------ claims
EvIdx == 1..Len(events)
Before(op, k, j) == \E m \in 1..(j - 1) : events[m] = Ev(op, k)
InSurvey == pc \in {"loop", "scroll", "stitch", "question", "asked", "act", "dump", "next"}
\* The browser shows the page that all_questions and sorted_elements are of.
Sorted ==
  \/ pc \in {"question", "asked", "act", "dump", "next", "returned"}
  \/ pc = "crashed" /\ \E j \in 1..Len(events) : events[j].op = "stitch"
Occurrences(s, e) == Cardinality({ k \in 1..Len(s) : s[k] = e })

\* How often the current iteration has done op to element e.
Times(op, e) ==
  Cardinality({ j \in EvIdx : events[j].op = op /\ sorted_elements[events[j].i] = e })

\* C1: within one iteration of the page loop the screenshots are captured
\* and stitched first; each question's DOM action comes after the API
\* answer to that question, and a question is asked only after the DOM
\* action of the one before it; "next" is clicked only after every question
\* found on the page has had its DOM action.
C1_StepOrder ==
  \A j \in EvIdx :
    /\ events[j].op = "stitch" => (j > 1 /\ \A m \in 1..(j - 1) : events[m].op = "shot")
    /\ events[j].op \in {"api", "summary", "dom", "dump", "next"} =>
         \E m \in 1..(j - 1) : events[m].op = "stitch"
    /\ events[j].op = "dom" => Before("api", events[j].i, j)
    /\ (events[j].op = "api" /\ events[j].i > 1) => Before("dom", events[j].i - 1, j)
    /\ events[j].op = "next" =>
         \A q \in 1..Len(all_questions) : Before("dom", q, j)

C1_Witness ==
  /\ Len(all_questions) >= 2
  /\ \E j \in EvIdx : events[j].op = "next"

\* C2: the DOM action is a function of the answer: had the API given any
\* other answer to the question just handled, and had that answer been put
\* into the page too, another control would have been clicked or another
\* value typed.
C2_ActionDependsOnAnswer ==
  (lastDom.op \in {"click_button", "select_option", "type_input", "click_element",
                   "type_textarea"}) =>
    \A reply \in Replies :
      LET parsed == ParseInt(reply)
          other == IF IsChoice(lastDom.branch)
                   THEN [ok |-> parsed.ok, val |-> IntAnswer(parsed.val)]
                   ELSE [ok |-> TRUE, val |-> StrAnswer(reply)]
          eff == IF other.ok THEN DomEffect(lastDom.branch, other.val, lastDom.found)
                 ELSE Raise("ValueError")
      IN  (other.ok /\ other.val # lastDom.answer /\ ~eff.raised) =>
            << eff.op, eff.button, eff.text >> # << lastDom.op, lastDom.button, lastDom.text >>

\* C3: when the questions of a page are done, every question element of the
\* page has been sent to the API once, summarised once and acted on once.
C3_ExactlyOnce ==
  pc \in {"dump", "next", "returned"} =>
    \A k \in 1..Len(dom) :
      Times("api", dom[k]) = 1 /\ Times("summary", dom[k]) = 1 /\ Times("dom", dom[k]) = 1

\* C4: the elements are processed in the order of sorted_elements, which
\* holds the elements found on the page, each as often as the locators
\* returned it, in non-decreasing (y, x) order; an element is answered only
\* after every element with a smaller (y, x).
C4_SortedByPosition ==
  /\ Len(sorted_elements) = Len(all_questions)
  /\ \A k \in 1..Len(all_questions) :
       Occurrences(sorted_elements, all_questions[k]) = Occurrences(all_questions, all_questions[k])
  /\ \A k \in 1..(Len(sorted_elements) - 1) :
       \/ sorted_elements[k].y < sorted_elements[k + 1].y
       \/ /\ sorted_elements[k].y = sorted_elements[k + 1].y
          /\ sorted_elements[k].x <= sorted_elements[k + 1].x
  /\ Sorted =>
       { sorted_elements[k] : k \in 1..Len(sorted_elements) } = { dom[k] : k \in 1..Len(dom) }
  /\ \A j \in EvIdx : (Sorted /\ events[j].op = "api") =>
       \A k \in 1..Len(dom) :
         LET e == sorted_elements[events[j].i]
             smaller == dom[k].y < e.y \/ (dom[k].y = e.y /\ dom[k].x < e.x)
         IN  smaller => \E m \in 1..(j - 1) :
                          events[m].op = "api" /\ sorted_elements[events[m].i] = dom[k]

C4_Witness ==
  /\ pc = "next"
  /\ Len(sorted_elements) = 2
  /\ all_questions[1] = sorted_elements[2]
  /\ sorted_elements[1].y = sorted_elements[2].y
  /\ sorted_elements[1].x < sorted_elements[2].x

\* C5 as stated: the page loop ends in one way only, at a "next" button that
\* is not found, with the error logged and page_index equal to the number
\* of successful clicks.
C5_OnlyWayOut ==
  pc \in {"returned", "crashed"} =>
    /\ Len(errlog) = profile
    /\ errlog[profile] = page_index
    /\ page_index = clicks

C5_State ==
  /\ pc = "returned" =>
       /\ Len(errlog) = profile
       /\ errlog[profile] = page_index
       /\ page_index = clicks
       /\ events[Len(events)].op = "dump"
  /\ (InSurvey \/ pc = "crashed") => Len(errlog) = profile - 1
  /\ pc = "crashed" => (events # <<>> /\ events[Len(events)].op \in {"shot", "stitch", "api", "summary", "dom"})

\* C5, amended: fill_survey returns exactly when a "next" click fails; it
\* has then logged the error for that page, page_index equals the number of
\* successful clicks, and nothing more is asked, typed or clicked.  The
\* loop also ends, without a return and without the log record, when a
\* question's answer raises.
C5_LogAndAbort ==
  /\ []C5_State
  /\ [][pc = "returned" =>
          /\ pc' = "main"
          /\ UNCHANGED << page_index, messages, events, errlog, messages_json, clicks >>]_vars

C5_Witness == pc = "returned" /\ page_index = 1 /\ clicks = 1 /\ site = "rich"

\* C6 as stated: with n buttons and answer a the a-th button is clicked
\* when 1 <= a <= n, and otherwise the lookup fails and none is clicked.
C6_OutOfRangeFails ==
  lastDom.branch = "cbc_task" =>
    IF 1 <= lastDom.answer.int /\ lastDom.answer.int <= lastDom.found
    THEN lastDom.op = "click_button" /\ lastDom.button = lastDom.answer.int
    ELSE lastDom.op = "IndexError" /\ lastDom.button = 0 /\ pc = "crashed"

\* C6, amended: with n buttons and answer a the a-th button is clicked when
\* 1 <= a <= n, the (n + a)-th when 1 - n <= a <= 0, and for every other a
\* the lookup fails, no button is clicked and the run stops.
C6_ButtonClicked ==
  lastDom.branch = "cbc_task" =>
    LET a == lastDom.answer.int
        n == lastDom.found
    IN  /\ (1 <= a /\ a <= n) => (lastDom.op = "click_button" /\ lastDom.button = a)
        /\ (1 - n <= a /\ a <= 0) => (lastDom.op = "click_button" /\ lastDom.button = n + a)
        /\ (a > n \/ a < 1 - n) =>
             /\ lastDom.op = "IndexError" /\ lastDom.button = 0
             /\ pc = "crashed"
             /\ \A j \in EvIdx : events[j] # Ev("dom", lastDom.i)

C6_Witness ==
  /\ lastDom.branch = "cbc_task" /\ lastDom.found = 2
  /\ lastDom.answer.int = 0 - 1 /\ lastDom.button = 1

\* C7: at most one browser session is open, it is the current row's, every
\* earlier row's session has been quit, and a survey starts at page_index 0
\* with a thread that holds the system message of its own row and no more.
C7_OneProfileAtATime ==
  /\ Cardinality(open) <= 1
  /\ open \subseteq {profile}
  /\ \A p \in 1..(profile - 1) : p \in quitted /\ p \notin open
  /\ (pc = "loop" /\ clicks = 0) =>
       /\ page_index = 0
       /\ messages = << SystemMessage(data[profile]) >>
       /\ open = {profile}

C7_Witness ==
  /\ profile = 2 /\ pc = "loop" /\ clicks = 0
  /\ quitted = {1}
  /\ Len(messages_json) > 1

\* C8: when the "next" click is attempted, and when fill_survey has
\* returned, messages.json holds the current thread, message by message.
C8_DumpIsThread ==
  pc \in {"next", "returned"} =>
    /\ Len(messages_json) = Len(messages)
    /\ \A k \in 1..Len(messages) :
         messages_json[k] = << "role", messages[k].role, "content", messages[k].content >>
    /\ events[Len(events)].op = "dump"

C8_Witness ==
  /\ pc = "returned" /\ page_index = 1
  /\ Len(all_questions) = 0
  /\ Len(messages) >= 3

HoldsQuestion(m) ==
  m.role = "user" /\ \E k \in 1..Len(m.content) : m.content[k].type = "text"

\* C9: when the questions of a page are done the thread starts with the
\* system message and holds no question; a page with n > 0 questions has
\* added n assistant messages and nothing else, a page without questions
\* one user message that holds the page's screenshot and nothing else.
C9_ThreadGrowth ==
  pc \in {"dump", "next"} =>
    LET n == Len(dom)
        added == SubSeq(messages, startLen + 1, Len(messages))
    IN  /\ messages[1] = SystemMessage(data[profile])
        /\ \A k \in 1..Len(messages) : ~HoldsQuestion(messages[k])
        /\ IF n > 0
           THEN Len(added) = n /\ \A k \in 1..Len(added) : added[k].role = "assistant"
           ELSE added = << UserMessage(<< ImagePart(page_index) >>) >>

\* C10: take_screenshots_scroll returns a non-empty list of the files
\* 0..k in order, and no two of its screenshots were taken at the same
\* scroll offset.
C10_OneShotPerOffset ==
  pc = "stitch" =>
    /\ screenshots # <<>>
    /\ \A k \in 1..Len(screenshots) : screenshots[k] = k - 1
    /\ \A j, k \in 1..Len(png) : j # k => png[j] # png[k]

\* The thread as it is sent to the completion API: the request in flight.
Request == messages

HoldsImage(m, p) ==
  m.role = "user" /\ \E k \in 1..Len(m.content) : m.content[k] = ImagePart(p)

\* C11: every answer request for a question ends with a user message that
\* holds the question and the stitched screenshot of the page the question
\* is on.
C11_RequestCarriesScreenshot ==
  pc = "asked" =>
    /\ HoldsQuestion(Request[Len(Request)])
    /\ HoldsImage(Request[Len(Request)], page_index)

\* The script has nothing left to run: an exception has left it, or the for
\* statement of line 420 has taken its last row.
Ended == pc = "crashed" \/ (pc = "main" /\ profile = Len(data))

\* C12 as stated: whatever happens inside fill_survey, when the script has
\* ended every session that was opened has been quit and every row of the
\* batch has been processed.
C12_AlwaysQuit ==
  Ended => (open = {} /\ quitted = 1..Len(data))

C12_State ==
  /\ pc = "crashed" =>
       /\ open = {profile} /\ profile \notin quitted
       /\ quitted = 1..(profile - 1)
  /\ (pc = "main" /\ profile = Len(data)) => (open = {} /\ quitted = 1..Len(data))

\* No page yields more entries of all_questions than this.
MaxQuestions == MaxElems * Len(Locators)

\* The steps one page takes at most: BeginPage, the screenshots, the stitch,
\* three steps for each question, the dump and the "next" click.
FromStitch == 1 + 3 * MaxQuestions + 2
PageSteps == 1 + (2 * MaxScroll + 2) + FromStitch

\* The steps left on the current page.
PageLeft ==
  CASE pc = "loop" -> PageSteps
    [] pc = "scroll" -> 2 * (scrollMax - pageYOffset)
                          + (IF last_height = pageYOffset THEN 0 ELSE 1) + 1 + FromStitch
    [] pc = "stitch" -> FromStitch
    [] pc = "question" -> 3 * (Len(sorted_elements) - i) + 5
    [] pc = "asked" -> 3 * (Len(sorted_elements) - i) + 4
    [] pc = "act" -> 3 * (Len(sorted_elements) - i) + 3
    [] pc = "dump" -> 2
    [] pc = "next" -> 1

\* The steps a survey takes at most, from the call of fill_survey to
\* driver.quit(), on a site of at most MaxPages pages.
SurveySteps == 1 + MaxPages * PageSteps + 1

\* A bound on the number of steps the script still takes.
Left ==
  (Len(data) - profile) * (1 + SurveySteps)
    + (CASE pc = "main" -> 0
         [] pc = "call" -> SurveySteps
         [] pc = "returned" -> 1
         [] pc = "crashed" -> 0
         [] OTHER -> (MaxPages - 1 - page_index) * PageSteps + PageLeft + 1)

\* C12, amended: a session is quit once its fill_survey returns, and the
\* next row is then processed, until every row's session has been opened
\* and quit; an exception inside fill_survey ends the script on the spot,
\* with that row's session still open and the later rows never opened.
\* The script ends in one of these two ways within Left steps (the site
\* has at most MaxPages pages, the browser and the API answer every call).
C12_QuitUnlessRaised ==
  /\ []C12_State
  /\ [](Ended \/ ENABLED Next)
  /\ [][Left' < Left /\ Left' >= 0]_vars
  /\ [][pc # "crashed"]_vars

C12_Witness ==
  /\ pc = "crashed" /\ lastDom.op = "IndexError"
  /\ Len(data) = 2 /\ profile = 1
  /\ open = {1} /\ quitted = {}

====
